---------------------------- MODULE Spec2Model ----------------------------
(***************************************************************************)
(* Model of doit's command line driver, src/doit/doit_cmd.py: cmd_main,    *)
(* the DoitCmdBase commands (run, list, clean, forget, ignore, auto) and   *)
(* Help.  Command line tokens are Python strings, modelled as sequences of *)
(* one-character strings so that arg[0], '=' in arg and arg.split('=', 1)  *)
(* are computed character by character.                                    *)
(*                                                                         *)
(* The loader (loader.get_tasks) and the executors (doit_run, doit_list,   *)
(* ...) are external: what they return or raise is chosen                 *)
(* nondeterministically.  They raise exceptions derived from Exception.    *)
(***************************************************************************)
EXTENDS Integers, Sequences, FiniteSets, TLC

\* Longest argv the model passes to cmd_main.
MaxArgs == 3

----------------------------------------------------------------------------
\* Python str and list operations used by cmd_main

EmptyMap == [k \in {} |-> k]

\* d[key] = value on a Python dict
DictSet(d, key, value) ==
    [k \in (DOMAIN d) \cup {key} |-> IF k = key THEN value ELSE d[k]]

\* ch in s
Contains(s, ch) == \E j \in 1..Len(s) : s[j] = ch

\* s.find(ch) + 1, for a string that contains ch
FirstIndex(s, ch) ==
    CHOOSE j \in 1..Len(s) : s[j] = ch /\ \A m \in 1..(j - 1) : s[m] # ch

\* s.split(ch, 1), for a string that contains ch
Split1(s, ch) ==
    LET p == FirstIndex(s, ch)
    IN  <<SubSeq(s, 1, p - 1), SubSeq(s, p + 1, Len(s))>>

BoundedSeq(S, n) == UNION {[1..m -> S] : m \in 0..n}

----------------------------------------------------------------------------
\* Command line tokens

\* "--version"
tok_version     == <<"-", "-", "v", "e", "r", "s", "i", "o", "n">>
\* "--help"
tok_help        == <<"-", "-", "h", "e", "l", "p">>
tok_empty       == <<>>
\* "task"
tok_task        == <<"t", "a", "s", "k">>
\* "a=b"
tok_var         == <<"a", "=", "b">>
\* "a=b=c"
tok_var2        == <<"a", "=", "b", "=", "c">>
\* "--no-continue"
tok_nocontinue  == <<"-", "-", "n", "o", "-", "c", "o", "n", "t", "i", "n", "u", "e">>
\* "--process=0"
tok_process     == <<"-", "-", "p", "r", "o", "c", "e", "s", "s", "=", "0">>

\* "help"
name_help   == <<"h", "e", "l", "p">>
\* "run"
name_run    == <<"r", "u", "n">>
\* "list"
name_list   == <<"l", "i", "s", "t">>
\* "clean"
name_clean  == <<"c", "l", "e", "a", "n">>
\* "forget"
name_forget == <<"f", "o", "r", "g", "e", "t">>
\* "ignore"
name_ignore == <<"i", "g", "n", "o", "r", "e">>
\* "auto"
name_auto   == <<"a", "u", "t", "o">>

\* option values, as the text Python prints for them
\* "True"
val_True    == <<"T", "r", "u", "e">>
\* "False"
val_False   == <<"F", "a", "l", "s", "e">>
\* "None"
val_None    == <<"N", "o", "n", "e">>

Tokens ==
    { tok_version, tok_help, tok_empty, tok_task, tok_var, tok_var2,
      tok_nocontinue, tok_process, name_help, name_run, name_list,
      name_clean, name_forget, name_auto }

ArgvInputs == BoundedSeq(Tokens, MaxArgs)

----------------------------------------------------------------------------
\* Option descriptors (the opt_* dictionaries).  short and long are <<>> when
\* the dictionary gives '' ; inverse is <<>> when it has no 'inverse' key.

Opt(n, s, l, t, d, inv) ==
    [name |-> n, short |-> s, long |-> l, type |-> t, default |-> d,
     inverse |-> inv]

opt_dodo == Opt("dodoFile", <<"f">>, <<"f", "i", "l", "e">>, "str", <<"d", "o", "d", "o", ".", "p", "y">>, <<>>)
opt_cwd == Opt("cwdPath", <<"d">>, <<"d", "i", "r">>, "str", val_None, <<>>)
opt_seek_file == Opt("seek_file", <<>>, <<"s", "e", "e", "k", "-", "f", "i", "l", "e">>, "bool", val_False, <<>>)
opt_outfile == Opt("outfile", <<"o">>, <<"o", "u", "t", "p", "u", "t", "-", "f", "i", "l", "e">>, "str", <<"s", "y", "s", ".", "s", "t", "d", "o", "u", "t">>, <<>>)
opt_depfile == Opt("dep_file", <<>>, <<"d", "b", "-", "f", "i", "l", "e">>, "str", <<".", "d", "o", "i", "t", ".", "d", "b">>, <<>>)
opt_always == Opt("always", <<"a">>, <<"a", "l", "w", "a", "y", "s", "-", "e", "x", "e", "c", "u", "t", "e">>, "bool", val_False, <<>>)
opt_continue ==
    Opt("continue", <<"c">>, <<"c", "o", "n", "t", "i", "n", "u", "e">>, "bool", val_False, <<"n", "o", "-", "c", "o", "n", "t", "i", "n", "u", "e">>)
opt_num_process == Opt("num_process", <<"n">>, <<"p", "r", "o", "c", "e", "s", "s">>, "int", <<"0">>, <<>>)
opt_verbosity == Opt("verbosity", <<"v">>, <<"v", "e", "r", "b", "o", "s", "i", "t", "y">>, "int", val_None, <<>>)
opt_reporter == Opt("reporter", <<"r">>, <<"r", "e", "p", "o", "r", "t", "e", "r">>, "str", <<"d", "e", "f", "a", "u", "l", "t">>, <<>>)
opt_listall == Opt("all", <<>>, <<"a", "l", "l">>, "bool", val_False, <<>>)
opt_list_quiet == Opt("quiet", <<"q">>, <<"q", "u", "i", "e", "t">>, "bool", val_False, <<>>)
opt_list_status == Opt("status", <<"s">>, <<"s", "t", "a", "t", "u", "s">>, "bool", val_False, <<>>)
opt_list_private == Opt("private", <<"p">>, <<"p", "r", "i", "v", "a", "t", "e">>, "bool", val_False, <<>>)
opt_list_dependencies ==
    Opt("list_deps", <<>>, <<"d", "e", "p", "s">>, "bool", val_False, <<>>)
opt_clean_dryrun == Opt("dryrun", <<"n">>, <<"d", "r", "y", "-", "r", "u", "n">>, "bool", val_False, <<>>)
opt_clean_cleandep ==
    Opt("cleandep", <<"c">>, <<"c", "l", "e", "a", "n", "-", "d", "e", "p">>, "bool", val_False, <<>>)
opt_clean_cleanall ==
    Opt("cleanall", <<"a">>, <<"c", "l", "e", "a", "n", "-", "a", "l", "l">>, "bool", val_False, <<>>)

\* DoitCmdBase.base_options
base_options == <<opt_dodo, opt_cwd, opt_seek_file, opt_depfile>>

\* The registry: DOIT_BUILTIN_CMDS, and sub_cmd.keys() of cmd_main
DOIT_BUILTIN_CMDS ==
    <<name_help, name_run, name_list, name_clean, name_forget, name_ignore,
      name_auto>>

sub_cmd == {DOIT_BUILTIN_CMDS[j] : j \in 1..Len(DOIT_BUILTIN_CMDS)}

\* The commands that derive from DoitCmdBase (all but Help)
ManifestCmds == sub_cmd \ {name_help}

\* cmd_options of each command class
cmd_options(cmd) ==
    CASE cmd = name_run ->
            <<opt_always, opt_continue, opt_verbosity, opt_reporter,
              opt_outfile, opt_num_process>>
      [] cmd = name_list ->
            <<opt_listall, opt_list_quiet, opt_list_status, opt_list_private,
              opt_list_dependencies>>
      [] cmd = name_clean ->
            <<opt_clean_cleandep, opt_clean_cleanall, opt_clean_dryrun>>
      [] cmd = name_auto -> <<opt_verbosity>>
      [] OTHER -> <<>>

\* DoitCmdBase.set_options: base_options + cmd_options; Help has no options
set_options(cmd) ==
    IF cmd \in ManifestCmds THEN base_options \o cmd_options(cmd) ELSE <<>>

OptNames(opts) == {opts[j].name : j \in 1..Len(opts)}

OptByName(opts, n) == opts[CHOOSE j \in 1..Len(opts) : opts[j].name = n]

----------------------------------------------------------------------------
\* Option parsing and the parameter dictionary (cmdparse, cmd_base).
\* A flag is a token of two or more characters that starts with '-'.

Digits == {"0", "1", "2", "3", "4", "5", "6", "7", "8", "9"}

\* the value converts to the option's type
Converts(type, v) ==
    CASE type = "str" -> TRUE
      [] type = "int" -> Len(v) > 0 /\ \A j \in 1..Len(v) : v[j] \in Digits
      [] OTHER -> FALSE

LongMatch(opts, l) == {j \in 1..Len(opts) : l # <<>> /\ opts[j].long = l}
InverseMatch(opts, l) == {j \in 1..Len(opts) : l # <<>> /\ opts[j].inverse = l}
ShortMatch(opts, c) == {j \in 1..Len(opts) : opts[j].short = <<c>>}

IsFlag(t) == Len(t) >= 2 /\ t[1] = "-"

ParseError == [err |-> TRUE, set |-> EmptyMap, args |-> <<>>]

\* Scans the tokens left to right; set holds the options given on the command
\* line (a later occurrence overwrites an earlier one), args the positionals.
RECURSIVE ParseFrom(_, _, _, _)
ParseFrom(opts, toks, set, args) ==
    IF toks = <<>> THEN [err |-> FALSE, set |-> set, args |-> args]
    ELSE
    LET t == Head(toks)
        rest == Tail(toks)
        WithValue(o, v, after) ==
            IF Converts(o.type, v)
            THEN ParseFrom(opts, after, DictSet(set, o.name, v), args)
            ELSE ParseError
        NeedsValue(o) ==
            IF rest = <<>> THEN ParseError
            ELSE WithValue(o, Head(rest), Tail(rest))
    IN  IF ~IsFlag(t) THEN ParseFrom(opts, rest, set, Append(args, t))
        ELSE IF t[2] = "-" THEN
            LET body == SubSeq(t, 3, Len(t))
            IN  IF Contains(body, "=") THEN
                    LET nv == Split1(body, "=")
                        J == LongMatch(opts, nv[1])
                    IN  IF J = {} THEN ParseError
                        ELSE WithValue(opts[CHOOSE j \in J : TRUE], nv[2], rest)
                ELSE IF LongMatch(opts, body) # {} THEN
                    LET o == opts[CHOOSE j \in LongMatch(opts, body) : TRUE]
                    IN  IF o.type = "bool"
                        THEN ParseFrom(opts, rest,
                                       DictSet(set, o.name, val_True), args)
                        ELSE NeedsValue(o)
                ELSE IF InverseMatch(opts, body) # {} THEN
                    LET o == opts[CHOOSE j \in InverseMatch(opts, body) : TRUE]
                    IN  ParseFrom(opts, rest,
                                  DictSet(set, o.name, val_False), args)
                ELSE ParseError
        ELSE
            LET J == ShortMatch(opts, t[2])
                more == SubSeq(t, 3, Len(t))
            IN  IF J = {} THEN ParseError
                ELSE LET o == opts[CHOOSE j \in J : TRUE]
                     IN  IF o.type = "bool" THEN
                             ParseFrom(opts,
                                       IF more = <<>> THEN rest
                                       ELSE <<(<<"-">> \o more)>> \o rest,
                                       DictSet(set, o.name, val_True), args)
                         ELSE IF more = <<>> THEN NeedsValue(o)
                         ELSE WithValue(o, more, rest)

\* CmdParse.parse: the options given on the command line, and the positionals
Parse(opts, toks) == ParseFrom(opts, toks, EmptyMap, <<>>)

\* The parameter dictionary built from the option defaults and the command
\* line.  d holds the values, nondefault the keys set on the command line.
NewParams(opts, set) ==
    [d |-> [n \in OptNames(opts) |->
               IF n \in DOMAIN set THEN set[n] ELSE OptByName(opts, n).default],
     nondefault |-> DOMAIN set]

\* params.update(kwargs): adds sub, the registry
WithSub(p) == [p EXCEPT !.d = DictSet(p.d, "sub", sub_cmd)]

\* params.update_defaults(config): sets each key of config that was not set on
\* the command line
update_defaults(p, update_dict) ==
    [p EXCEPT !.d =
        [k \in (DOMAIN p.d) \cup (DOMAIN update_dict) |->
            IF k \in DOMAIN update_dict /\ k \notin p.nondefault
            THEN update_dict[k] ELSE p.d[k]]]

\* doit.reset_vars() and doit.set_var(name, value) on the variable table
reset_vars(table) == EmptyMap
set_var(table, name, value) == DictSet(table, name, value)

----------------------------------------------------------------------------
\* The external collaborators: what the loader and the executors may do

\* the exceptions cmd_main reports without a traceback
UserErrors ==
    {"CmdParseError", "InvalidDodoFile", "InvalidCommand", "InvalidTask"}

\* what loader.get_tasks may raise: a user error, or anything else
LoaderErrors == {"InvalidDodoFile", "InvalidTask", "Exception"}

\* what an executor may raise
ExecutorErrors == {"InvalidCommand", "Exception"}

\* what an executor may return: the return codes of cmd_main's docstring
ExecResults == {0, 1, 2}

\* DOIT_CONFIG of the dodo file: nothing, or defaults for two options of run
\* and the default tasks
cfg_empty == EmptyMap

cfg_defaults ==
    [k \in {"continue", "num_process", "default_tasks"} |->
        CASE k = "continue" -> val_True
          [] k = "num_process" -> <<"2">>
          [] OTHER -> <<tok_task>>]

\* what loader.get_tasks may return
LoaderResults ==
    {[task_list |-> <<tok_task>>, config |-> c] : c \in {cfg_empty, cfg_defaults}}

\* config.get(key)
DictGet(d, key) == IF key \in DOMAIN d THEN d[key] ELSE val_None

\* read_dodo with params.update(config) for params.update_defaults(config)
read_dodo_update(p, a, dodo_tasks) ==
    [params |-> [p EXCEPT !.d =
                    [k \in (DOMAIN p.d) \cup (DOMAIN dodo_tasks.config) |->
                        IF k \in DOMAIN dodo_tasks.config
                        THEN dodo_tasks.config[k] ELSE p.d[k]]],
     task_list |-> dodo_tasks.task_list,
     config |-> dodo_tasks.config,
     sel_tasks |-> IF a # <<>> THEN a
                   ELSE DictGet(dodo_tasks.config, "default_tasks")]

\* DoitCmdBase.read_dodo, given what loader.get_tasks returned: the updated
\* params and the command's task_list, config and sel_tasks
read_dodo(p, a, dodo_tasks) ==
    [params |-> update_defaults(p, dodo_tasks.config),
     task_list |-> dodo_tasks.task_list,
     config |-> dodo_tasks.config,
     sel_tasks |-> IF a # <<>> THEN a
                   ELSE DictGet(dodo_tasks.config, "default_tasks")]

\* not value, on a bool option
Not(v) == IF v = val_True THEN val_False ELSE val_True

\* The positional arguments each execute passes to its executor
ExecutorArgs(cmd, p, me, a) ==
    CASE cmd = name_run ->
            <<p["dep_file"], me.task_list, p["outfile"], me.sel_tasks,
              p["verbosity"], p["always"], p["continue"], p["reporter"],
              p["num_process"]>>
      [] cmd = name_list ->
            <<p["dep_file"], me.task_list, <<"s", "y", "s", ".", "s", "t", "d", "o", "u", "t">>, a, p["all"],
              Not(p["quiet"]), p["status"], p["private"], p["list_deps"]>>
      [] cmd = name_clean ->
            <<me.task_list, <<"s", "y", "s", ".", "s", "t", "d", "o", "u", "t">>, p["dryrun"], p["cleandep"],
              p["cleanall"], DictGet(me.config, "default_tasks"), a>>
      [] cmd = name_forget ->
            <<p["dep_file"], me.task_list, <<"s", "y", "s", ".", "s", "t", "d", "o", "u", "t">>, me.sel_tasks>>
      [] cmd = name_ignore ->
            <<p["dep_file"], me.task_list, <<"s", "y", "s", ".", "s", "t", "d", "o", "u", "t">>, a>>
      [] cmd = name_auto ->
            <<p["dep_file"], me.task_list, me.sel_tasks, p["verbosity"]>>

\* cmd_main_except with InvalidTask missing from the first except clause
cmd_main_except_notask(kind) ==
    IF kind \in UserErrors \ {"InvalidTask"}
    THEN [ret |-> 3, err |-> <<[kind |-> "error_line", arg |-> kind]>>]
    ELSE [ret |-> 3, err |-> <<[kind |-> "traceback", arg |-> kind]>>]

\* The except clauses of cmd_main: the exit code and what goes to stderr
cmd_main_except(kind) ==
    IF kind \in UserErrors
    THEN [ret |-> 3, err |-> <<[kind |-> "error_line", arg |-> kind]>>]
    ELSE [ret |-> 3, err |-> <<[kind |-> "traceback", arg |-> kind]>>]

\* Help_execute with "if args" for "if len(args) == 1"
Help_execute_anylen(p, a) ==
    IF Len(a) >= 1 /\ a[1] \in p["sub"]
    THEN [kind |-> "command_help", arg |-> a[1]]
    ELSE IF Len(a) >= 1 /\ a[1] = tok_task
    THEN [kind |-> "task_help", arg |-> <<>>]
    ELSE [kind |-> "usage", arg |-> <<>>]

\* What Help.execute prints for its positional arguments
Help_execute(p, a) ==
    IF Len(a) = 1 /\ a[1] \in p["sub"]
    THEN [kind |-> "command_help", arg |-> a[1]]
    ELSE IF Len(a) = 1 /\ a[1] = tok_task
    THEN [kind |-> "task_help", arg |-> <<>>]
    ELSE [kind |-> "usage", arg |-> <<>>]

\* IsSpecial without the test for --help
IsSpecial_version(argv) == argv # <<>> /\ argv[1] = tok_version

\* The special parameters of cmd_main, which run nothing
IsSpecial(argv) == argv # <<>> /\ argv[1] \in {tok_version, tok_help}

\* IsVar without the test of the first character
IsVar_anywhere(arg) == Contains(arg, "=")

\* The scan of cmd_main: is the token a name=value assignment
IsVar(arg) == arg[1] # "-" /\ Contains(arg, "=")

\* SelectsDefault with list missing from the registry
SelectsDefault_nolist(no_vars) ==
    Len(no_vars) = 0 \/ no_vars[1] \notin (sub_cmd \ {name_list})

\* The command cmd_main selects for the tokens left after the scan
SelectsDefault(no_vars) == Len(no_vars) = 0 \/ no_vars[1] \notin sub_cmd

----------------------------------------------------------------------------
\* State

VARIABLES
    pc,            \* where cmd_main is: "idle", "special", "scan",
                   \* "parse_execute", "execute", "executor", "done", "raised"
    cmd_args,      \* the argument of cmd_main
    idx,           \* position of the scan in cmd_args
    args_no_vars,  \* the tokens kept by the scan
    CMDLINE_VARS,  \* doit's variable table, which outlives a call
    command,       \* name of the selected command, <<>> before it is selected
    params,        \* the command's parameter dictionary
    args,          \* the command's positional arguments
    self,          \* the command's task_list, config and sel_tasks
    log,           \* calls made to the collaborators during this call
    out,           \* what this call printed, to stdout and to stderr
    ret,           \* <<code>> once cmd_main returned, <<>> before
    exc,           \* the exception that left cmd_main, "none" otherwise
    caught,        \* the exception parse_execute raised, "none" otherwise
    vars0,         \* the variable table when this call started
    forwarded,     \* << the list passed to parse_execute >>, <<>> before
    executed       \* << the executor's result >> once it returned

vars ==
    <<pc, cmd_args, idx, args_no_vars, CMDLINE_VARS, command, params, args,
      self, log, out, ret, exc, caught, vars0, forwarded, executed>>

NoParams == [d |-> EmptyMap, nondefault |-> {}]
NoSelf == [task_list |-> <<>>, config |-> EmptyMap, sel_tasks |-> <<>>]

Call(op, a, b) == [op |-> op, a |-> a, b |-> b]
Printed(stream, what) == [stream |-> stream, kind |-> what.kind, arg |-> what.arg]

Init ==
    /\ pc = "idle"
    /\ cmd_args = <<>>
    /\ idx = 1
    /\ args_no_vars = <<>>
    /\ CMDLINE_VARS = EmptyMap
    /\ command = <<>>
    /\ params = NoParams
    /\ args = <<>>
    /\ self = NoSelf
    /\ log = <<>>
    /\ out = <<>>
    /\ ret = <<>>
    /\ exc = "none"
    /\ caught = "none"
    /\ vars0 = EmptyMap
    /\ forwarded = <<>>
    /\ executed = <<>>

\* cmd_main(argv) is called; the variable table is what the last call left
Invoke ==
    /\ pc = "idle"
    /\ \E argv \in ArgvInputs : cmd_args' = argv
    /\ pc' = "special"
    /\ vars0' = CMDLINE_VARS
    /\ UNCHANGED <<idx, args_no_vars, CMDLINE_VARS, command, params, args,
                   self, log, out, ret, exc, caught, forwarded, executed>>

\* The call is over (cmd_main returned, or an exception left it): its locals
\* are gone, the variable table stays
Finish ==
    /\ pc \in {"done", "raised"}
    /\ pc' = "idle"
    /\ cmd_args' = <<>>
    /\ idx' = 1
    /\ args_no_vars' = <<>>
    /\ command' = <<>>
    /\ params' = NoParams
    /\ args' = <<>>
    /\ self' = NoSelf
    /\ log' = <<>>
    /\ out' = <<>>
    /\ ret' = <<>>
    /\ exc' = "none"
    /\ caught' = "none"
    /\ vars0' = CMDLINE_VARS
    /\ forwarded' = <<>>
    /\ executed' = <<>>
    /\ UNCHANGED CMDLINE_VARS

\* --version or --help first: print and return 0
VersionOrHelp ==
    /\ pc = "special"
    /\ IsSpecial(cmd_args)
    /\ out' = <<Printed("stdout",
                  [kind |-> IF cmd_args[1] = tok_version THEN "version"
                            ELSE "usage",
                   arg |-> <<>>])>>
    /\ ret' = <<0>>
    /\ pc' = "done"
    /\ UNCHANGED <<cmd_args, idx, args_no_vars, CMDLINE_VARS, command, params,
                   args, self, log, exc, caught, vars0, forwarded, executed>>

\* ResetVars without the call of doit.reset_vars()
ResetVars_noreset ==
    /\ pc = "special"
    /\ ~IsSpecial(cmd_args)
    /\ args_no_vars' = <<>>
    /\ idx' = 1
    /\ pc' = "scan"
    /\ UNCHANGED <<cmd_args, CMDLINE_VARS, command, params, args, self, log,
                   out, ret, exc, caught, vars0, forwarded, executed>>

\* doit.reset_vars(); args_no_vars = []
ResetVars ==
    /\ pc = "special"
    /\ ~IsSpecial(cmd_args)
    /\ CMDLINE_VARS' = reset_vars(CMDLINE_VARS)
    /\ log' = Append(log, Call("reset_vars", <<>>, <<>>))
    /\ args_no_vars' = <<>>
    /\ idx' = 1
    /\ pc' = "scan"
    /\ UNCHANGED <<cmd_args, command, params, args, self, out, ret, exc, caught,
                   vars0, forwarded, executed>>

\* one iteration of "for arg in cmd_args", on a token that has a first
\* character
ScanArg ==
    /\ pc = "scan"
    /\ idx <= Len(cmd_args)
    /\ Len(cmd_args[idx]) > 0
    /\ LET arg == cmd_args[idx]
       IN  IF IsVar(arg)
           THEN LET nv == Split1(arg, "=")
                IN  /\ CMDLINE_VARS' = set_var(CMDLINE_VARS, nv[1], nv[2])
                    /\ log' = Append(log, Call("set_var", nv[1], nv[2]))
                    /\ UNCHANGED args_no_vars
           ELSE /\ args_no_vars' = Append(args_no_vars, arg)
                /\ UNCHANGED <<CMDLINE_VARS, log>>
    /\ idx' = idx + 1
    /\ UNCHANGED <<pc, cmd_args, command, params, args, self, out, ret, exc, caught,
                   vars0, forwarded, executed>>

\* the iteration on an empty token: arg[0] raises IndexError, outside the
\* try statement, so the exception leaves cmd_main
ScanArgIndexError ==
    /\ pc = "scan"
    /\ idx <= Len(cmd_args)
    /\ Len(cmd_args[idx]) = 0
    /\ exc' = "IndexError"
    /\ pc' = "raised"
    /\ UNCHANGED <<caught, cmd_args, idx, args_no_vars, CMDLINE_VARS, command, params,
                   args, self, log, out, ret, vars0, forwarded, executed>>

\* get specified sub-command or use default='run'
SelectCommand ==
    /\ pc = "scan"
    /\ idx > Len(cmd_args)
    /\ IF SelectsDefault(args_no_vars)
       THEN /\ command' = name_run
            /\ UNCHANGED args_no_vars
       ELSE /\ command' = Head(args_no_vars)
            /\ args_no_vars' = Tail(args_no_vars)
    /\ forwarded' = <<args_no_vars'>>
    /\ pc' = "parse_execute"
    /\ UNCHANGED <<cmd_args, idx, CMDLINE_VARS, params, args, self, log, out,
                   ret, exc, caught, vars0, executed>>

\* cmd_main returns 3 from an except clause
Except(kind) ==
    /\ caught' = kind
    /\ ret' = <<cmd_main_except(kind).ret>>
    /\ out' = out \o [j \in 1..Len(cmd_main_except(kind).err) |->
                        Printed("stderr", cmd_main_except(kind).err[j])]
    /\ pc' = "done"

\* parse_execute: the options parse; params are built and execute is entered
ParseExecute ==
    /\ pc = "parse_execute"
    /\ LET opts == set_options(command)
           r == Parse(opts, args_no_vars)
       IN  /\ ~r.err
           /\ params' = WithSub(NewParams(opts, r.set))
           /\ args' = r.args
    /\ pc' = "execute"
    /\ UNCHANGED <<cmd_args, idx, args_no_vars, CMDLINE_VARS, command, self,
                   log, out, ret, exc, caught, vars0, forwarded, executed>>

\* parse_execute: the options do not parse, CmdParseError
ParseFails ==
    /\ pc = "parse_execute"
    /\ Parse(set_options(command), args_no_vars).err
    /\ Except("CmdParseError")
    /\ UNCHANGED <<cmd_args, idx, args_no_vars, CMDLINE_VARS, command, params,
                   args, self, log, exc, vars0, forwarded, executed>>

GetTasksCall ==
    Call("get_tasks",
         <<params.d["dodoFile"], params.d["cwdPath"], params.d["seek_file"]>>,
         params.d["sub"])

\* execute of a DoitCmdBase command, read_dodo: the loader returns
LoaderReturns ==
    /\ pc = "execute"
    /\ command \in ManifestCmds
    /\ \E dodo_tasks \in LoaderResults :
          LET r == read_dodo(params, args, dodo_tasks)
          IN  /\ params' = r.params
              /\ self' = [task_list |-> r.task_list, config |-> r.config,
                          sel_tasks |-> r.sel_tasks]
    /\ log' = Append(log, GetTasksCall)
    /\ pc' = "executor"
    /\ UNCHANGED <<cmd_args, idx, args_no_vars, CMDLINE_VARS, command, args,
                   out, ret, exc, caught, vars0, forwarded, executed>>

\* LoaderRaises with the loader's exception swallowed by read_dodo
LoaderRaises_swallowed ==
    /\ pc = "execute"
    /\ command \in ManifestCmds
    /\ log' = Append(log, GetTasksCall)
    /\ pc' = "executor"
    /\ UNCHANGED <<cmd_args, idx, args_no_vars, CMDLINE_VARS, command, params,
                   args, self, out, ret, exc, caught, vars0, forwarded,
                   executed>>

\* execute of a DoitCmdBase command, read_dodo: the loader raises
LoaderRaises ==
    /\ pc = "execute"
    /\ command \in ManifestCmds
    /\ log' = Append(log, GetTasksCall)
    /\ \E kind \in LoaderErrors : Except(kind)
    /\ UNCHANGED <<cmd_args, idx, args_no_vars, CMDLINE_VARS, command, params,
                   args, self, exc, vars0, forwarded, executed>>

ExecutorCall ==
    Call("executor", command, ExecutorArgs(command, params.d, self, args))

\* ExecutorReturns with every failure of the executor reported as 3
ExecutorReturns_as3 ==
    /\ pc = "executor"
    /\ log' = Append(log, ExecutorCall)
    /\ \E r \in ExecResults :
          /\ executed' = <<r>>
          /\ ret' = <<IF r = 0 THEN 0 ELSE 3>>
    /\ pc' = "done"
    /\ UNCHANGED <<cmd_args, idx, args_no_vars, CMDLINE_VARS, command, params,
                   args, self, out, exc, caught, vars0, forwarded>>

\* the executor returns; execute, parse_execute and cmd_main return its result
ExecutorReturns ==
    /\ pc = "executor"
    /\ log' = Append(log, ExecutorCall)
    /\ \E r \in ExecResults :
          /\ executed' = <<r>>
          /\ ret' = <<r>>
    /\ pc' = "done"
    /\ UNCHANGED <<cmd_args, idx, args_no_vars, CMDLINE_VARS, command, params,
                   args, self, out, exc, caught, vars0, forwarded>>

\* the executor raises
ExecutorRaises ==
    /\ pc = "executor"
    /\ log' = Append(log, ExecutorCall)
    /\ \E kind \in ExecutorErrors : Except(kind)
    /\ UNCHANGED <<cmd_args, idx, args_no_vars, CMDLINE_VARS, command, params,
                   args, self, exc, vars0, forwarded, executed>>

\* Help.execute
HelpExecute ==
    /\ pc = "execute"
    /\ command = name_help
    /\ out' = Append(out, Printed("stdout", Help_execute(params.d, args)))
    /\ ret' = <<0>>
    /\ pc' = "done"
    /\ UNCHANGED <<cmd_args, idx, args_no_vars, CMDLINE_VARS, command, params,
                   args, self, log, exc, caught, vars0, forwarded, executed>>

Next ==
    \/ Invoke
    \/ Finish
    \/ VersionOrHelp
    \/ ResetVars
    \/ ScanArg
    \/ ScanArgIndexError
    \/ SelectCommand
    \/ ParseExecute
    \/ ParseFails
    \/ LoaderReturns
    \/ LoaderRaises
    \/ ExecutorReturns
    \/ ExecutorRaises
    \/ HelpExecute

Spec == Init /\ [][Next]_vars

----------------------------------------------------------------------------
\* Properties.  What they expect is written from the documentation, without
\* the operators of the model above.

Chars(t) == {t[j] : j \in 1..Len(t)}

\* a name=value token: does not start with '-', contains '='
Assignment(t) == t # <<>> /\ Head(t) # "-" /\ "=" \in Chars(t)

\* the text before and after the first '=' of a token
NameOf(t) ==
    SubSeq(t, 1, (CHOOSE k \in 1..Len(t) :
                     t[k] = "=" /\ "=" \notin Chars(SubSeq(t, 1, k - 1))) - 1)
ValueOf(t) == SubSeq(t, Len(NameOf(t)) + 2, Len(t))

Assigned(argv) == SelectSeq(argv, Assignment)
Kept(argv) == SelectSeq(argv, LAMBDA t : ~Assignment(t))

\* the table the assignments of argv give: for each name the last value
TableOf(argv) ==
    LET a == Assigned(argv)
        names == {NameOf(a[j]) : j \in 1..Len(a)}
    IN  [n \in names |->
            ValueOf(a[CHOOSE j \in 1..Len(a) :
                        /\ NameOf(a[j]) = n
                        /\ \A m \in (j + 1)..Len(a) : NameOf(a[m]) # n])]

Registered ==
    {name_help, name_run, name_list, name_clean, name_forget, name_ignore,
     name_auto}

SpecialFirst == cmd_args # <<>> /\ cmd_args[1] \in {tok_version, tok_help}

Scanned == SubSeq(cmd_args, 1, idx - 1)

CallsOf(op) == SelectSeq(log, LAMBDA c : c.op = op)

Stderr == SelectSeq(out, LAMBDA o : o.stream = "stderr")
Stdout == SelectSeq(out, LAMBDA o : o.stream = "stdout")

\* C1: the scan extracts exactly the tokens that do not start with '-' and
\* contain '=': during the scan and after it, the tokens kept so far are the
\* other tokens scanned so far in their order, and set_var was called once for
\* each extracted token, in order, with the text before its first '=' as name
\* and the text after it as value; the list parse_execute gets is the kept
\* tokens, less the command name when one leads them.
C1_VariablesExtracted ==
    /\ pc = "scan" =>
          /\ args_no_vars = Kept(Scanned)
          /\ CallsOf("set_var") =
                [j \in 1..Len(Assigned(Scanned)) |->
                    Call("set_var", NameOf(Assigned(Scanned)[j]),
                         ValueOf(Assigned(Scanned)[j]))]
    /\ forwarded # <<>> =>
          /\ \/ forwarded[1] = Kept(cmd_args)
             \/ <<command>> \o forwarded[1] = Kept(cmd_args)
          /\ \A j \in 1..Len(forwarded[1]) : ~Assignment(forwarded[1][j])
          /\ CallsOf("set_var") =
                [j \in 1..Len(Assigned(cmd_args)) |->
                    Call("set_var", NameOf(Assigned(cmd_args)[j]),
                         ValueOf(Assigned(cmd_args)[j]))]

\* a=b=c was recorded as a, b=c; --process=0 was kept
C1_Witness ==
    /\ pc = "parse_execute"
    /\ cmd_args = <<tok_task, tok_var2, tok_process>>
    /\ forwarded[1] = <<tok_task, tok_process>>
    /\ CallsOf("set_var") = <<Call("set_var", <<"a">>, <<"b", "=", "c">>)>>

\* C2: the command is resolved on the tokens left after the variables are
\* taken out: when none is left or the first is no registered command name,
\* the command is run and every token is forwarded (a first token that is no
\* flag becomes the first positional argument of run); otherwise the first
\* is the command and the rest is forwarded unchanged.
C2_CommandResolution ==
    forwarded # <<>> =>
        LET k == Kept(cmd_args)
        IN  IF k = <<>> \/ Head(k) \notin Registered
            THEN /\ command = name_run
                 /\ forwarded[1] = k
                 /\ (pc \in {"execute", "executor"} /\ k # <<>>
                       /\ Head(Head(k)) # "-")
                      => (args # <<>> /\ Head(args) = Head(k))
            ELSE /\ command = Head(k)
                 /\ forwarded[1] = Tail(k)

\* a=b task: the variable is skipped, task is no command and goes to run
C2_Witness ==
    /\ pc = "execute"
    /\ cmd_args = <<tok_var, tok_task, name_list>>
    /\ command = name_run
    /\ args = <<tok_task, name_list>>

LoaderReturned == pc = "executor" \/ CallsOf("executor") # <<>>

\* C3: after read_dodo, each option of the command has the command line's
\* value if the command line gave it, else the manifest's default if the
\* manifest declares one, else the default of its descriptor.
C3_Precedence ==
    (command \in Registered \ {name_help} /\ LoaderReturned) =>
        LET opts == set_options(command)
            cli == Parse(opts, forwarded[1]).set
        IN  \A j \in 1..Len(opts) :
              params.d[opts[j].name] =
                 IF opts[j].name \in DOMAIN cli THEN cli[opts[j].name]
                 ELSE IF opts[j].name \in DOMAIN self.config
                      THEN self.config[opts[j].name]
                 ELSE opts[j].default

\* --no-continue gives continue its hardcoded default, False, on the command
\* line; the manifest says True for it and 2 for num_process
C3_Witness ==
    /\ pc = "executor"
    /\ command = name_run
    /\ cmd_args = <<tok_nocontinue>>
    /\ self.config = cfg_defaults
    /\ params.d["continue"] = val_False
    /\ params.d["num_process"] = <<"2">>
    /\ params.d["reporter"] = <<"d", "e", "f", "a", "u", "l", "t">>

\* C4: an option-parse, invalid-manifest, invalid-command or invalid-task
\* error raised by parse_execute gives exit code 3 and one ERROR line with
\* the error's message on stderr, no traceback; any other exception gives
\* exit code 3 and a traceback on stderr.
C4_ErrorMapping ==
    (pc = "done" /\ caught # "none") =>
        /\ ret = <<3>>
        /\ IF caught \in {"CmdParseError", "InvalidDodoFile", "InvalidCommand",
                          "InvalidTask"}
           THEN Stderr = <<[stream |-> "stderr", kind |-> "error_line",
                            arg |-> caught]>>
           ELSE Stderr = <<[stream |-> "stderr", kind |-> "traceback",
                            arg |-> caught]>>

C4_Witness ==
    /\ pc = "done"
    /\ caught = "InvalidTask"
    /\ ret = <<3>>
    /\ Len(Stderr) = 1

\* C5: when the executor returns, cmd_main returns its result unchanged, and
\* cmd_main returns 3 only from an except clause.
C5_ResultPropagated ==
    pc = "done" =>
        /\ executed # <<>> => (ret = executed /\ caught = "none")
        /\ ret = <<3>> => caught # "none"

C5_Witness ==
    /\ pc = "done"
    /\ executed = <<2>>
    /\ ret = <<2>>

\* C6: with --version or --help first, cmd_main returns 0 and nothing else
\* runs: no command is selected, no collaborator is called, the variable
\* table is neither reset nor written.
C6_SpecialParameters ==
    (SpecialFirst /\ pc # "idle") =>
        /\ pc \in {"special", "done"}
        /\ pc = "done" => ret = <<0>>
        /\ log = <<>>
        /\ command = <<>>
        /\ forwarded = <<>>
        /\ executed = <<>>
        /\ CMDLINE_VARS = vars0
        /\ Stderr = <<>>

\* --help list a=b, with a variable left by the call before
C6_Witness ==
    /\ pc = "done"
    /\ cmd_args = <<tok_help, name_list, tok_var>>
    /\ vars0 # EmptyMap
    /\ CMDLINE_VARS = vars0
    /\ ret = <<0>>

\* C7: Help.execute returns 0; it prints the command's help for one argument
\* that is a registered command name, the task reference for the one
\* argument task, the general usage otherwise.
C7_Help ==
    (pc = "done" /\ command = name_help /\ caught = "none") =>
        /\ ret = <<0>>
        /\ CallsOf("get_tasks") = <<>>
        /\ Stdout =
             <<[stream |-> "stdout",
                kind |-> IF Len(args) = 1 /\ args[1] \in Registered
                         THEN "command_help"
                         ELSE IF args = <<tok_task>> THEN "task_help"
                         ELSE "usage",
                arg |-> IF Len(args) = 1 /\ args[1] \in Registered
                        THEN args[1] ELSE <<>>]>>

\* help list run: two arguments, the general usage
C7_Witness ==
    /\ pc = "done"
    /\ command = name_help
    /\ args = <<name_list, name_run>>
    /\ Stdout = <<[stream |-> "stdout", kind |-> "usage", arg |-> <<>>]>>
    /\ ret = <<0>>

\* C8: once a call is past the --version/--help check, the variable table
\* holds the assignments of that call's tokens scanned so far, the last one
\* for each name, and nothing from an earlier call; from the end of the scan
\* on it holds the assignments of the whole argv.
C8_TableScoped ==
    /\ pc \in {"scan", "raised"} => CMDLINE_VARS = TableOf(Scanned)
    /\ forwarded # <<>> => CMDLINE_VARS = TableOf(cmd_args)

\* the call before left a=b=c; a=b=c a=b leaves a=b
C8_Witness ==
    /\ pc = "executor"
    /\ vars0 = [n \in { <<"a">> } |-> <<"b", "=", "c">>]
    /\ cmd_args = <<tok_var2, tok_var>>
    /\ CMDLINE_VARS = [n \in { <<"a">> } |-> <<"b">>]

\* C9 as stated: a call that selected a manifest-aware command called the
\* loader exactly once.
C9_LoaderExactlyOnce ==
    (pc = "done" /\ command \in Registered \ {name_help}) =>
        Len(CallsOf("get_tasks")) = 1

\* C9, amended: for a manifest-aware command the loader is called at most
\* once, and exactly once when the options parse; the executor is called at
\* most once, after the loader's call and only if the loader returned; when
\* the loader raises, the executor is not called and cmd_main returns 3; the
\* help command never calls the loader.
C9_LoaderThenExecutor ==
    /\ Len(CallsOf("get_tasks")) <= 1
    /\ Len(CallsOf("executor")) <= 1
    /\ CallsOf("executor") # <<>> =>
          /\ Len(log) >= 2
          /\ log[Len(log)].op = "executor"
          /\ log[Len(log) - 1].op = "get_tasks"
          /\ self.task_list # <<>>
    /\ (pc = "done" /\ command \in Registered \ {name_help}) =>
          /\ caught # "CmdParseError" => Len(CallsOf("get_tasks")) = 1
          /\ caught = "CmdParseError" =>
                (CallsOf("get_tasks") = <<>> /\ ret = <<3>>)
          /\ caught = "InvalidDodoFile" =>
                (CallsOf("executor") = <<>> /\ ret = <<3>>)
          /\ (CallsOf("get_tasks") # <<>> /\ CallsOf("executor") = <<>>) =>
                (caught # "none" /\ ret = <<3>>)
    /\ command = name_help => CallsOf("get_tasks") = <<>>

\* clean, and the loader raises for the manifest
C9_Witness ==
    /\ pc = "done"
    /\ command = name_clean
    /\ caught = "InvalidDodoFile"
    /\ Len(CallsOf("get_tasks")) = 1
    /\ CallsOf("executor") = <<>>
    /\ ret = <<3>>

\* C10: no exception leaves cmd_main: every call returns an exit code, and 3
\* when it fails before an executor runs.
C10_NoExceptionEscapes ==
    /\ pc # "raised"
    /\ (pc = "done" /\ caught # "none" /\ CallsOf("executor") = <<>>) =>
          ret = <<3>>

=============================================================================
